---------------------------- MODULE Spec2Model ----------------------------
(***************************************************************************)
(* Model of the on-device detector generated by                            *)
(* k230dev-yolo/workspace/deploy_canmv.py (class YOLOv8Detector).          *)
(*                                                                         *)
(* Numbers.  Normalised coordinates and class scores are Python floats;    *)
(* they are modelled as integers counting quarters (Den = 4), so 2 is 0.5  *)
(* and 6 is 1.5.  Every value used is a dyadic rational of small           *)
(* magnitude, on which the float additions, subtractions, halvings and    *)
(* multiplications of the code are exact, so the integer arithmetic below *)
(* is the code's arithmetic.                                               *)
(* An IoU is the quotient of two small integers; it is kept as the pair    *)
(* <<numerator, denominator>> and compared by cross multiplication.        *)
(*                                                                         *)
(* A detection is the 6-tuple (x, y, w, h, conf, cls) of the code; Python  *)
(* index k is index k+1 here.                                              *)
(***************************************************************************)
EXTENDS Integers, Sequences, FiniteSets, TLC

VARIABLES
    stage,           \* position of the caller that exercises one method
    arg_detections,  \* nms(): the list passed in
    iou_threshold,   \* nms(): the IoU threshold, <<num, den>>
    keep,            \* nms(): the list returned
    keep_again,      \* nms() applied to its own result
    outputs,         \* postprocess(): the raw tensor, [batch][prediction][value]
    conf_thresh,     \* postprocess(): confidence threshold, in quarters
    img_width,       \* self.img_width
    img_height,      \* self.img_height
    candidates,      \* postprocess(): the list handed to nms()
    detections,      \* postprocess(): the list returned
    pc,              \* main(): the statement about to execute
    camera,          \* the capture device: "closed", "open" or "released"
    clock,           \* the value time.ticks_ms() returns now
    frame_count,     \* self.frame_count
    fps,             \* self.fps
    last_time,       \* self.last_time
    img,             \* run(): the frame of this iteration, or "none"
    pending,         \* the exception propagating, or "none"
    captures,        \* history: calls of camera.capture() so far
    processed,       \* history: frames that reached update_fps() so far
    last_reclaim,    \* history: the value of processed when the loop last called gc.collect(), 0 before
    deinit_calls,    \* history: calls of camera.camera_deinit() so far
    final_reclaims,  \* history: calls of gc.collect() in the finally clause so far
    arg_boxes,       \* iou(): the two boxes passed in
    iou_returned,    \* iou(): the results for both orders of the arguments
    elapsed,         \* update_fps() alone: true milliseconds since the last reset
    window_ticks,    \* update_fps() alone: calls since the last reset
    prior_ticks,     \* update_fps() alone: calls in the last closed window before the closing one
    close_elapsed    \* update_fps() alone: true milliseconds the last closed window lasted

harness == <<stage, arg_detections, iou_threshold, keep, keep_again, conf_thresh>>

cleanup == <<deinit_calls, final_reclaims>>

loop == <<pc, camera, clock, frame_count, fps, last_time, img, pending,
          captures, processed, last_reclaim, deinit_calls, final_reclaims>>

probe == <<arg_boxes, iou_returned, elapsed, window_ticks, prior_ticks,
           close_elapsed>>

vars == <<stage, arg_detections, iou_threshold, keep, keep_again, outputs,
          conf_thresh, img_width, img_height, candidates, detections,
          pc, camera, clock, frame_count, fps, last_time, img, pending,
          captures, processed, last_reclaim, deinit_calls, final_reclaims,
          arg_boxes, iou_returned, elapsed, window_ticks, prior_ticks,
          close_elapsed>>

-----------------------------------------------------------------------------
(* Configuration written into the generated script.                        *)

\* Unit of the normalised coordinates and of the scores: 1/Den.
Den == 4

\* CLASS_NAMES; C = Len(CLASS_NAMES).
CLASS_NAMES == <<"class0", "class1">>

NumClasses == Len(CLASS_NAMES)

\* IMG_WIDTH, IMG_HEIGHT (generate_canmv_script's default img_size).
IMG_WIDTH == 320

IMG_HEIGHT == 320

\* CONFIDENCE_THRESHOLD = 0.25, in quarters.
CONFIDENCE_THRESHOLD == 1

\* IOU_THRESHOLD = 0.45.
IOU_THRESHOLD == <<9, 20>>

-----------------------------------------------------------------------------
(* Bounds of the model.                                                    *)

\* Longest detection list handed to nms() on its own.
MaxDets == 3

\* Most prediction rows in a raw tensor.
MaxRows == 2

-----------------------------------------------------------------------------
(* Arithmetic helpers.                                                     *)

Max(a, b) == IF a >= b THEN a ELSE b

Min(a, b) == IF a <= b THEN a ELSE b

\* Python's int() on the real number n/d (d > 0): truncation toward zero.
IntTrunc(n, d) == IF n >= 0 THEN n \div d ELSE -((-n) \div d)

\* a < b for quotients <<num, den>> with positive denominators.
FracLess(a, b) == a[1] * b[2] < b[1] * a[2]

Indices(s) == 1..Len(s)

Range(s) == {s[i] : i \in Indices(s)}

\* All sequences over S of length 0..n.
RECURSIVE SeqsUpTo(_, _)
SeqsUpTo(S, n) ==
    IF n = 0 THEN {<<>>}
    ELSE LET shorter == SeqsUpTo(S, n - 1)
         IN shorter \cup {Append(s, e) : s \in {t \in shorter : Len(t) = n - 1}, e \in S}

-----------------------------------------------------------------------------
(* YOLOv8Detector.iou                                                      *)

\* Variant: the union counts the area of the first box twice.
iou_first_area_twice(box1, box2) ==
    LET x1_1 == box1[1]
        y1_1 == box1[2]
        w1   == box1[3]
        h1   == box1[4]
        x1_2 == box2[1]
        y1_2 == box2[2]
        w2   == box2[3]
        h2   == box2[4]
        x2_1 == x1_1 + w1
        y2_1 == y1_1 + h1
        x2_2 == x1_2 + w2
        y2_2 == y1_2 + h2
        xi1  == Max(x1_1, x1_2)
        yi1  == Max(y1_1, y1_2)
        xi2  == Min(x2_1, x2_2)
        yi2  == Min(y2_1, y2_2)
        inter_area == Max(0, xi2 - xi1) * Max(0, yi2 - yi1)
        box1_area  == w1 * h1
        box2_area  == w2 * h2
        union_area == box1_area + box1_area - inter_area
    IN IF union_area > 0 THEN <<inter_area, union_area>> ELSE <<0, 1>>

\* Variant: the quotient is taken without the test of the union area; a
\* denominator of 0 stands for the ZeroDivisionError.
iou_unguarded(box1, box2) ==
    LET x1_1 == box1[1]
        y1_1 == box1[2]
        w1   == box1[3]
        h1   == box1[4]
        x1_2 == box2[1]
        y1_2 == box2[2]
        w2   == box2[3]
        h2   == box2[4]
        x2_1 == x1_1 + w1
        y2_1 == y1_1 + h1
        x2_2 == x1_2 + w2
        y2_2 == y1_2 + h2
        xi1  == Max(x1_1, x1_2)
        yi1  == Max(y1_1, y1_2)
        xi2  == Min(x2_1, x2_2)
        yi2  == Min(y2_1, y2_2)
        inter_area == Max(0, xi2 - xi1) * Max(0, yi2 - yi1)
        box1_area  == w1 * h1
        box2_area  == w2 * h2
        union_area == box1_area + box2_area - inter_area
    IN <<inter_area, union_area>>

\* The result is the quotient <<inter_area, union_area>>, or <<0, 1>> for the
\* 0 of the else branch.
iou(box1, box2) ==
    LET x1_1 == box1[1]
        y1_1 == box1[2]
        w1   == box1[3]
        h1   == box1[4]
        x1_2 == box2[1]
        y1_2 == box2[2]
        w2   == box2[3]
        h2   == box2[4]
        x2_1 == x1_1 + w1
        y2_1 == y1_1 + h1
        x2_2 == x1_2 + w2
        y2_2 == y1_2 + h2
        xi1  == Max(x1_1, x1_2)
        yi1  == Max(y1_1, y1_2)
        xi2  == Min(x2_1, x2_2)
        yi2  == Min(y2_1, y2_2)
        inter_area == Max(0, xi2 - xi1) * Max(0, yi2 - yi1)
        box1_area  == w1 * h1
        box2_area  == w2 * h2
        union_area == box1_area + box2_area - inter_area
    IN IF union_area > 0 THEN <<inter_area, union_area>> ELSE <<0, 1>>

-----------------------------------------------------------------------------
(* YOLOv8Detector.nms                                                      *)

\* Variant: the comparison with the threshold is <= instead of <.
SurvivesInclusive(best, det, threshold) ==
    ~FracLess(threshold, iou(best, det)) \/ best[6] # det[6]

\* Variant: the class test is missing.
SurvivesAnyClass(best, det, threshold) ==
    FracLess(iou(best, det), threshold)

\* The condition of the list comprehension: det stays in the working list.
Survives(best, det, threshold) ==
    FracLess(iou(best, det), threshold) \/ best[6] # det[6]

\* Variant: removal from the list while iterating over it, which passes over
\* the element that follows each removed one.
RECURSIVE RemoveWhileIterating(_, _, _)
RemoveWhileIterating(best, dets, threshold) ==
    IF dets = <<>> THEN <<>>
    ELSE IF Survives(best, Head(dets), threshold)
         THEN <<Head(dets)>> \o RemoveWhileIterating(best, Tail(dets), threshold)
         ELSE IF Len(dets) = 1 THEN <<>>
              ELSE <<dets[2]>> \o
                   RemoveWhileIterating(best, Tail(Tail(dets)), threshold)

\* detections = [det for det in detections if ...]
RemoveOverlapping(best, dets, threshold) ==
    SelectSeq(dets, LAMBDA det : Survives(best, det, threshold))

\* Variant: the sort is not stable; d goes in front of the elements of its
\* own confidence.
RECURSIVE InsertByConfBeforeEquals(_, _)
InsertByConfBeforeEquals(sorted, d) ==
    IF sorted = <<>> THEN <<d>>
    ELSE IF Head(sorted)[5] > d[5]
         THEN <<Head(sorted)>> \o InsertByConfBeforeEquals(Tail(sorted), d)
         ELSE <<d>> \o sorted

\* Variant: reverse=True is missing, the sort is ascending.
RECURSIVE InsertByConfAscending(_, _)
InsertByConfAscending(sorted, d) ==
    IF sorted = <<>> THEN <<d>>
    ELSE IF Head(sorted)[5] <= d[5]
         THEN <<Head(sorted)>> \o InsertByConfAscending(Tail(sorted), d)
         ELSE <<d>> \o sorted

\* One step of the stable descending sort: d goes behind every element whose
\* confidence is at least its own.
RECURSIVE InsertByConf(_, _)
InsertByConf(sorted, d) ==
    IF sorted = <<>> THEN <<d>>
    ELSE IF Head(sorted)[5] >= d[5]
         THEN <<Head(sorted)>> \o InsertByConf(Tail(sorted), d)
         ELSE <<d>> \o sorted

\* detections.sort(key=lambda x: x[4], reverse=True): stable, descending.
RECURSIVE SortByConf(_)
SortByConf(dets) ==
    IF dets = <<>> THEN <<>>
    ELSE InsertByConf(SortByConf(SubSeq(dets, 1, Len(dets) - 1)), dets[Len(dets)])

\* The while loop: dets is the working list, kept the list built so far.
RECURSIVE NmsLoop(_, _, _)
NmsLoop(dets, kept, threshold) ==
    IF Len(dets) = 0 THEN kept
    ELSE LET best == Head(dets)
         IN NmsLoop(RemoveOverlapping(best, Tail(dets), threshold),
                    Append(kept, best), threshold)

\* Variant: the list is not sorted before the loop.
nms_unsorted(dets, threshold) ==
    IF Len(dets) = 0 THEN <<>>
    ELSE NmsLoop(dets, <<>>, threshold)

nms(dets, threshold) ==
    IF Len(dets) = 0 THEN <<>>
    ELSE NmsLoop(SortByConf(dets), <<>>, threshold)

-----------------------------------------------------------------------------
(* YOLOv8Detector.postprocess                                              *)

\* max(class_scores) of a non-empty list.
MaxOf(scores) ==
    CHOOSE m \in Range(scores) : \A v \in Range(scores) : m >= v

\* Variant: the index of the last occurrence.
LastIndexOf(scores, v) ==
    (CHOOSE i \in Indices(scores) :
        scores[i] = v /\ \A j \in Indices(scores) : scores[j] = v => j <= i) - 1

\* class_scores.index(max_conf): the first occurrence, counted from 0.
IndexOf(scores, v) ==
    (CHOOSE i \in Indices(scores) :
        scores[i] = v /\ \A j \in Indices(scores) : scores[j] = v => i <= j) - 1

\* Variant: the upper bound of the clamp is missing.
ClampLowOnly(v, limit) == Max(0, v)

\* max(0, min(v, limit))
Clamp(v, limit) == Max(0, Min(v, limit))

\* Variant: the extent is not halved.
LowCornerFullExtent(centre, extent, size) ==
    IntTrunc((centre - extent) * size, Den)

\* int((centre -+ extent / 2) * size), centre and extent in units of 1/Den.
LowCorner(centre, extent, size) == IntTrunc((2 * centre - extent) * size, 2 * Den)

HighCorner(centre, extent, size) == IntTrunc((2 * centre + extent) * size, 2 * Den)

\* Variant: a score equal to the threshold is dropped.
BelowOrAtThreshold(max_conf, thresh) == max_conf <= thresh

\* if max_conf < conf_thresh: continue
BelowThreshold(max_conf, thresh) == max_conf < thresh

\* pred[:4] unpacked into four names, or max() of an empty pred[4:], raises.
RowRaises(pred) == Len(pred) < 5

\* Variant: the operands of the subtraction are exchanged.
ExtentReversed(low, high) == low - high

\* x2-x1 and y2-y1 in the appended tuple.
Extent(low, high) == high - low

\* The detection appended for a row that passed the threshold.
DecodeRow(pred, width, height) ==
    LET x_center == pred[1]
        y_center == pred[2]
        w == pred[3]
        h == pred[4]
        class_scores == SubSeq(pred, 5, Len(pred))
        max_conf == MaxOf(class_scores)
        class_id == IndexOf(class_scores, max_conf)
        x1 == Clamp(LowCorner(x_center, w, width), width)
        y1 == Clamp(LowCorner(y_center, h, height), height)
        x2 == Clamp(HighCorner(x_center, w, width), width)
        y2 == Clamp(HighCorner(y_center, h, height), height)
    IN <<x1, y1, Extent(x1, x2), Extent(y1, y2), max_conf, class_id>>

\* The for loop inside the try block.  An exception leaves the loop; the
\* except clause prints it, and the rows decoded so far remain in the list.
RECURSIVE DecodeLoop(_, _, _, _, _, _)
DecodeLoop(predictions, i, acc, thresh, width, height) ==
    IF i > Len(predictions) THEN acc
    ELSE LET pred == predictions[i]
         IN IF RowRaises(pred) THEN acc
            ELSE IF BelowThreshold(MaxOf(SubSeq(pred, 5, Len(pred))), thresh)
                 THEN DecodeLoop(predictions, i + 1, acc, thresh, width, height)
                 ELSE DecodeLoop(predictions, i + 1,
                                 Append(acc, DecodeRow(pred, width, height)),
                                 thresh, width, height)

\* The list built before nms() is applied.  outputs[0] of an empty outputs
\* raises inside the try block as well.
Candidates(outs, thresh, width, height) ==
    IF Len(outs) = 0 THEN <<>>
    ELSE DecodeLoop(outs[1], 1, <<>>, thresh, width, height)

postprocess(outs, thresh, iou_thresh, width, height) ==
    nms(Candidates(outs, thresh, width, height), iou_thresh)

-----------------------------------------------------------------------------
(* Inputs.                                                                 *)

\* Boxes (x, y, w, h) with IoU 1/2 (first and second), 1/3 (first and
\* third), 0 (second and third), and a box of zero area.
Boxes == {<<0, 0, 2, 1>>, <<0, 0, 1, 1>>, <<1, 0, 2, 1>>, <<1, 1, 0, 0>>}

Confidences == {1, 2}

WellFormedDetections ==
    {b \o <<c, k>> : b \in Boxes, c \in Confidences, k \in 0..(NumClasses - 1)}

IouThresholds == {<<0, 1>>, <<1, 4>>, <<1, 2>>, <<1, 1>>}

\* (x_center, y_center, width, height) in quarters: inside the frame, off the
\* left edge, off the right and bottom edges, larger than the frame, of
\* negative width, of negative height, and one whose corners are truncated.
Geometries ==
    {<<2, 2, 2, 2>>, <<-2, 2, 2, 2>>, <<6, 6, 2, 2>>, <<2, 2, 8, 8>>,
     <<2, 2, -2, 2>>, <<2, 2, 2, -2>>, <<1, 3, 1, 1>>}

\* pred[4:]: well-formed score lists, none at all, and one score too many.
ScoreLists ==
    {<<3, 1>>, <<1, 3>>, <<2, 2>>, <<1, 1>>, <<>>, <<1, 1, 3>>}

\* A row too short to unpack.
ShortRow == <<2, 2, 2>>

Rows == {g \o s : g \in Geometries, s \in ScoreLists} \cup {ShortRow}

ConfThresholds == {2, 3}

ImageSizes == {<<4, 6>>, <<IMG_WIDTH, IMG_HEIGHT>>}

WellFormedRow(pred) == Len(pred) = 4 + NumClasses

-----------------------------------------------------------------------------
(* Callers of the pure methods.                                            *)

\* The detector is not running.
LoopIdle ==
    /\ pc = "idle"
    /\ camera = "closed"
    /\ clock = 0
    /\ frame_count = 0
    /\ fps = 0
    /\ last_time = 0
    /\ img = "none"
    /\ pending = "none"
    /\ captures = 0
    /\ processed = 0
    /\ last_reclaim = 0
    /\ deinit_calls = 0
    /\ final_reclaims = 0

\* iou() and update_fps() are not being exercised on their own.
ProbeIdle ==
    /\ arg_boxes = <<>>
    /\ iou_returned = <<>>
    /\ elapsed = 0
    /\ window_ticks = 0
    /\ prior_ticks = 0
    /\ close_elapsed = 0

InitNms ==
    /\ stage = "nms_args"
    /\ arg_detections \in SeqsUpTo(WellFormedDetections, MaxDets)
    /\ iou_threshold \in IouThresholds
    /\ keep = <<>>
    /\ keep_again = <<>>
    /\ outputs = <<>>
    /\ conf_thresh = CONFIDENCE_THRESHOLD
    /\ img_width = IMG_WIDTH
    /\ img_height = IMG_HEIGHT
    /\ candidates = <<>>
    /\ detections = <<>>
    /\ LoopIdle
    /\ ProbeIdle

CallNms ==
    /\ stage = "nms_args"
    /\ keep' = nms(arg_detections, iou_threshold)
    /\ stage' = "nms_returned"
    /\ UNCHANGED <<arg_detections, iou_threshold, keep_again, outputs,
                   conf_thresh, img_width, img_height, candidates, detections>>
    /\ UNCHANGED loop
    /\ UNCHANGED probe

CallNmsAgain ==
    /\ stage = "nms_returned"
    /\ keep_again' = nms(keep, iou_threshold)
    /\ stage' = "nms_returned_again"
    /\ UNCHANGED <<arg_detections, iou_threshold, keep, outputs,
                   conf_thresh, img_width, img_height, candidates, detections>>
    /\ UNCHANGED loop
    /\ UNCHANGED probe

NextNms == CallNms \/ CallNmsAgain

SpecNms == InitNms /\ [][NextNms]_vars

\* nms() statement by statement: detections is its working list and keep
\* the list it builds, as in the code.
InitNmsLoop ==
    /\ stage = "nms_called"
    /\ arg_detections \in SeqsUpTo(WellFormedDetections, MaxDets)
    /\ iou_threshold \in IouThresholds
    /\ keep = <<>>
    /\ keep_again = <<>>
    /\ outputs = <<>>
    /\ conf_thresh = CONFIDENCE_THRESHOLD
    /\ img_width = IMG_WIDTH
    /\ img_height = IMG_HEIGHT
    /\ candidates = <<>>
    /\ detections = <<>>
    /\ LoopIdle
    /\ ProbeIdle

\* if len(detections) == 0: return []; detections.sort(...); keep = []
NmsEnter ==
    /\ stage = "nms_called"
    /\ IF Len(arg_detections) = 0
       THEN /\ stage' = "nms_loop_returned"
            /\ detections' = <<>>
       ELSE /\ stage' = "nms_loop"
            /\ detections' = SortByConf(arg_detections)
    /\ keep' = <<>>
    /\ UNCHANGED <<arg_detections, iou_threshold, keep_again, outputs,
                   conf_thresh, img_width, img_height, candidates>>
    /\ UNCHANGED loop
    /\ UNCHANGED probe

\* Variant: best is read as detections[0] and not popped from the list.
NmsIterateWithoutPop ==
    /\ stage = "nms_loop"
    /\ Len(detections) > 0
    /\ LET best == Head(detections)
       IN /\ keep' = Append(keep, best)
          /\ detections' = RemoveOverlapping(best, detections, iou_threshold)
    /\ UNCHANGED <<stage, arg_detections, iou_threshold, keep_again, outputs,
                   conf_thresh, img_width, img_height, candidates>>
    /\ UNCHANGED loop
    /\ UNCHANGED probe

\* One pass of the while loop: pop the head, append it to keep, filter the
\* rest.
NmsIterate ==
    /\ stage = "nms_loop"
    /\ Len(detections) > 0
    /\ LET best == Head(detections)
       IN /\ keep' = Append(keep, best)
          /\ detections' = RemoveOverlapping(best, Tail(detections), iou_threshold)
    /\ UNCHANGED <<stage, arg_detections, iou_threshold, keep_again, outputs,
                   conf_thresh, img_width, img_height, candidates>>
    /\ UNCHANGED loop
    /\ UNCHANGED probe

\* The while condition fails: return keep
NmsReturn ==
    /\ stage = "nms_loop"
    /\ Len(detections) = 0
    /\ stage' = "nms_loop_returned"
    /\ UNCHANGED <<arg_detections, iou_threshold, keep, keep_again, outputs,
                   conf_thresh, img_width, img_height, candidates, detections>>
    /\ UNCHANGED loop
    /\ UNCHANGED probe

NextNmsLoop == NmsEnter \/ NmsIterate \/ NmsReturn

SpecNmsLoop == InitNmsLoop /\ [][NextNmsLoop]_vars

InitDecode ==
    /\ stage = "postprocess_args"
    /\ outputs \in {<<p>> : p \in SeqsUpTo(Rows, MaxRows)}
    /\ conf_thresh \in ConfThresholds
    /\ \E size \in ImageSizes : img_width = size[1] /\ img_height = size[2]
    /\ iou_threshold = IOU_THRESHOLD
    /\ arg_detections = <<>>
    /\ keep = <<>>
    /\ keep_again = <<>>
    /\ candidates = <<>>
    /\ detections = <<>>
    /\ LoopIdle
    /\ ProbeIdle

CallPostprocess ==
    /\ stage = "postprocess_args"
    /\ candidates' = Candidates(outputs, conf_thresh, img_width, img_height)
    /\ detections' = postprocess(outputs, conf_thresh, iou_threshold,
                                 img_width, img_height)
    /\ stage' = "postprocess_returned"
    /\ UNCHANGED <<arg_detections, iou_threshold, keep, keep_again, outputs,
                   conf_thresh, img_width, img_height>>
    /\ UNCHANGED loop
    /\ UNCHANGED probe

NextDecode == CallPostprocess

SpecDecode == InitDecode /\ [][NextDecode]_vars

-----------------------------------------------------------------------------
(* main(), YOLOv8Detector.__init__, update_fps and run.                    *)

\* Most calls of camera.capture() in one run of the model.
MaxCaptures == 12

\* The window of update_fps(), in milliseconds.
FpsWindowMs == 1000

\* The modulus of the memory-management test in run().
ReclaimModulus == 10

\* time.ticks_ms() counts modulo this period (MicroPython, 31-bit small ints).
TicksPeriod == 2 ^ 30

\* Variant: the timestamps are subtracted as plain integers.
ticks_minus(a, b) == a - b

\* time.ticks_diff(a, b): the signed difference modulo the period.
ticks_diff(a, b) ==
    ((a - b + TicksPeriod \div 2) % TicksPeriod) - TicksPeriod \div 2

\* Variant: the elapsed time is tested before the call is counted, so the
\* call that closes a window is left out of the reported count.
update_fps_test_first(count, rate, last, current_time) ==
    IF ticks_diff(current_time, last) >= FpsWindowMs
    THEN <<0, count, current_time>>
    ELSE <<count + 1, rate, last>>

\* Variant: the window closes only after more than 1000 ms.
update_fps_strict(count, rate, last, current_time) ==
    IF ticks_diff(current_time, last) > FpsWindowMs
    THEN <<0, count + 1, current_time>>
    ELSE <<count + 1, rate, last>>

\* update_fps() on the fields (frame_count, fps, last_time) when
\* time.ticks_ms() returns current_time: the fields after the call.
update_fps(count, rate, last, current_time) ==
    IF ticks_diff(current_time, last) >= FpsWindowMs
    THEN <<0, count + 1, current_time>>
    ELSE <<count + 1, rate, last>>

\* Milliseconds one camera.capture() call may take.
CaptureDelays == {50, 500}

\* Values of the tick counter when the detector is constructed.
StartTicks == {0}

\* What kpu.run() may return: an empty tensor, a batch with no predictions,
\* one object, two overlapping predictions of one object, and a row with one
\* score more than classes.
KpuOutputs ==
    { <<>>,
      <<<<>>>>,
      <<<< <<2, 2, 2, 2, 3, 1>> >>>>,
      <<<< <<2, 2, 2, 2, 3, 1>>, <<2, 2, 2, 2, 2, 1>> >>>>,
      <<<< <<2, 2, 2, 2, 1, 1, 3>> >>>> }

\* Statements of run() inside the try block.
TryPcs ==
    {"capture", "preprocess", "infer", "postprocess", "draw", "update_fps",
     "display", "memory"}

Init ==
    /\ pc = "load_model"
    /\ camera = "closed"
    /\ clock \in StartTicks
    /\ frame_count = 0
    /\ fps = 0
    /\ last_time = 0
    /\ img = "none"
    /\ pending = "none"
    /\ captures = 0
    /\ processed = 0
    /\ last_reclaim = 0
    /\ deinit_calls = 0
    /\ final_reclaims = 0
    /\ ProbeIdle
    /\ stage = "idle"
    /\ arg_detections = <<>>
    /\ iou_threshold = IOU_THRESHOLD
    /\ keep = <<>>
    /\ keep_again = <<>>
    /\ conf_thresh = CONFIDENCE_THRESHOLD
    /\ outputs = <<>>
    /\ img_width = IMG_WIDTH
    /\ img_height = IMG_HEIGHT
    /\ candidates = <<>>
    /\ detections = <<>>

\* __init__: nn.load(model_path) returns, or raises and the exception leaves
\* __init__ and main().
LoadModel ==
    /\ pc = "load_model"
    /\ \/ pc' = "camera_init" /\ pending' = pending
       \/ pc' = "raised" /\ pending' = "Exception"
    /\ UNCHANGED <<camera, clock, frame_count, fps, last_time, img, captures,
                   processed, last_reclaim, outputs, img_width, img_height,
                   candidates, detections>>
    /\ UNCHANGED harness
    /\ UNCHANGED probe
    /\ UNCHANGED cleanup

\* Variant: the except clause prints and does not re-raise, so __init__ goes
\* on and main() calls run().
CameraInitWithoutReraise ==
    /\ pc = "camera_init"
    /\ \/ camera' = "open"
       \/ camera' = camera
    /\ frame_count' = 0
    /\ fps' = 0
    /\ last_time' = clock
    /\ pc' = "capture"
    /\ pending' = pending
    /\ UNCHANGED <<clock, img, captures, processed, last_reclaim, outputs,
                   img_width, img_height, candidates, detections>>
    /\ UNCHANGED harness
    /\ UNCHANGED probe
    /\ UNCHANGED cleanup

\* __init__: camera.camera_init() returns and the counters are set, or it
\* raises and the exception leaves __init__ and main().
CameraInit ==
    /\ pc = "camera_init"
    /\ \/ /\ camera' = "open"
          /\ frame_count' = 0
          /\ fps' = 0
          /\ last_time' = clock
          /\ pc' = "capture"
          /\ pending' = pending
       \/ /\ pc' = "raised"
          /\ pending' = "Exception"
          /\ UNCHANGED <<camera, frame_count, fps, last_time>>
    /\ UNCHANGED <<clock, img, captures, processed, last_reclaim, outputs,
                   img_width, img_height, candidates, detections>>
    /\ UNCHANGED harness
    /\ UNCHANGED probe
    /\ UNCHANGED cleanup

\* Variant: the test for None is missing.
CaptureWithoutNoneCheck ==
    /\ pc = "capture"
    /\ captures < MaxCaptures
    /\ captures' = captures + 1
    /\ \E d \in CaptureDelays : clock' = (clock + d) % TicksPeriod
    /\ img' \in {"none", "frame"}
    /\ pc' = "preprocess"
    /\ outputs' = <<>>
    /\ candidates' = <<>>
    /\ detections' = <<>>
    /\ UNCHANGED <<camera, frame_count, fps, last_time, pending, processed,
                   last_reclaim, img_width, img_height>>
    /\ UNCHANGED harness
    /\ UNCHANGED probe
    /\ UNCHANGED cleanup

\* img = camera.capture(); if img is None: continue
\* The locals outputs and detections of the previous iteration are dead here
\* (each is assigned before it is read again); the model forgets them.
Capture ==
    /\ pc = "capture"
    /\ captures < MaxCaptures
    /\ captures' = captures + 1
    /\ \E d \in CaptureDelays : clock' = (clock + d) % TicksPeriod
    /\ \/ img' = "none" /\ pc' = "capture"
       \/ img' = "frame" /\ pc' = "preprocess"
    /\ outputs' = <<>>
    /\ candidates' = <<>>
    /\ detections' = <<>>
    /\ UNCHANGED <<camera, frame_count, fps, last_time, pending, processed,
                   last_reclaim, img_width, img_height>>
    /\ UNCHANGED harness
    /\ UNCHANGED probe
    /\ UNCHANGED cleanup

\* input_img = self.preprocess(img)
Preprocess ==
    /\ pc = "preprocess"
    /\ pc' = "infer"
    /\ UNCHANGED <<camera, clock, frame_count, fps, last_time, img, pending,
                   captures, processed, last_reclaim, outputs, img_width,
                   img_height, candidates, detections>>
    /\ UNCHANGED harness
    /\ UNCHANGED probe
    /\ UNCHANGED cleanup

\* Variant: the call of postprocess() is missing; the frame is drawn with
\* the detections at hand.
InferWithoutPostprocess ==
    /\ pc = "infer"
    /\ \/ /\ outputs' \in KpuOutputs
          /\ pc' = "draw"
          /\ pending' = pending
       \/ /\ pc' = "finally"
          /\ pending' = "Exception"
          /\ outputs' = outputs
    /\ UNCHANGED <<camera, clock, frame_count, fps, last_time, img, captures,
                   processed, last_reclaim, img_width, img_height, candidates,
                   detections>>
    /\ UNCHANGED harness
    /\ UNCHANGED probe
    /\ UNCHANGED cleanup

\* Variant: an exception of kpu.run() is caught in the loop and the loop
\* goes on with the next frame.
InferSwallowingErrors ==
    /\ pc = "infer"
    /\ \/ outputs' \in KpuOutputs /\ pc' = "postprocess"
       \/ outputs' = outputs /\ pc' = "capture"
    /\ UNCHANGED <<camera, clock, frame_count, fps, last_time, img, pending,
                   captures, processed, last_reclaim, img_width, img_height,
                   candidates, detections>>
    /\ UNCHANGED harness
    /\ UNCHANGED probe
    /\ UNCHANGED cleanup

\* outputs = self.kpu.run(input_img): returns a tensor or raises.
Infer ==
    /\ pc = "infer"
    /\ \/ /\ outputs' \in KpuOutputs
          /\ pc' = "postprocess"
          /\ pending' = pending
       \/ /\ pc' = "finally"
          /\ pending' = "Exception"
          /\ outputs' = outputs
    /\ UNCHANGED <<camera, clock, frame_count, fps, last_time, img, captures,
                   processed, last_reclaim, img_width, img_height, candidates,
                   detections>>
    /\ UNCHANGED harness
    /\ UNCHANGED probe
    /\ UNCHANGED cleanup

\* Variant: postprocess() raises when no row was decoded, as a max() or a
\* pop(0) on the empty list would.
PostprocessRaisingOnEmpty ==
    /\ pc = "postprocess"
    /\ candidates' = Candidates(outputs, CONFIDENCE_THRESHOLD, img_width, img_height)
    /\ IF candidates' = <<>>
       THEN /\ pc' = "finally"
            /\ pending' = "Exception"
            /\ detections' = detections
       ELSE /\ pc' = "draw"
            /\ pending' = pending
            /\ detections' = postprocess(outputs, CONFIDENCE_THRESHOLD,
                                         IOU_THRESHOLD, img_width, img_height)
    /\ UNCHANGED <<camera, clock, frame_count, fps, last_time, img, captures,
                   processed, last_reclaim, outputs, img_width, img_height>>
    /\ UNCHANGED harness
    /\ UNCHANGED probe
    /\ UNCHANGED cleanup

\* detections = self.postprocess(outputs)
Postprocess ==
    /\ pc = "postprocess"
    /\ candidates' = Candidates(outputs, CONFIDENCE_THRESHOLD, img_width, img_height)
    /\ detections' = postprocess(outputs, CONFIDENCE_THRESHOLD, IOU_THRESHOLD,
                                 img_width, img_height)
    /\ pc' = "draw"
    /\ UNCHANGED <<camera, clock, frame_count, fps, last_time, img, pending,
                   captures, processed, last_reclaim, outputs, img_width,
                   img_height>>
    /\ UNCHANGED harness
    /\ UNCHANGED probe
    /\ UNCHANGED cleanup

\* CLASS_NAMES[int(cls)] raises IndexError for an index past the list.
DrawRaises(dets) == \E i \in Indices(dets) : dets[i][6] >= Len(CLASS_NAMES)

\* Variant: the loop goes on to the next frame when there is nothing to
\* draw, and the frame is not displayed.
DrawDetectionsSkippingEmpty ==
    /\ pc = "draw"
    /\ IF DrawRaises(detections)
       THEN pc' = "finally" /\ pending' = "Exception"
       ELSE /\ pc' = IF detections = <<>> THEN "capture" ELSE "update_fps"
            /\ pending' = pending
    /\ UNCHANGED <<camera, clock, frame_count, fps, last_time, img, captures,
                   processed, last_reclaim, outputs, img_width, img_height,
                   candidates, detections>>
    /\ UNCHANGED harness
    /\ UNCHANGED probe
    /\ UNCHANGED cleanup

\* img = self.draw_detections(img, detections)
DrawDetections ==
    /\ pc = "draw"
    /\ IF DrawRaises(detections)
       THEN pc' = "finally" /\ pending' = "Exception"
       ELSE pc' = "update_fps" /\ pending' = pending
    /\ UNCHANGED <<camera, clock, frame_count, fps, last_time, img, captures,
                   processed, last_reclaim, outputs, img_width, img_height,
                   candidates, detections>>
    /\ UNCHANGED harness
    /\ UNCHANGED probe
    /\ UNCHANGED cleanup

\* self.update_fps()
UpdateFps ==
    /\ pc = "update_fps"
    /\ LET after == update_fps(frame_count, fps, last_time, clock)
       IN /\ frame_count' = after[1]
          /\ fps' = after[2]
          /\ last_time' = after[3]
    /\ processed' = processed + 1
    /\ pc' = "display"
    /\ UNCHANGED <<camera, clock, img, pending, captures, last_reclaim, outputs,
                   img_width, img_height, candidates, detections>>
    /\ UNCHANGED harness
    /\ UNCHANGED probe
    /\ UNCHANGED cleanup

\* img.draw_string(... FPS ...); camera.display(img)
Display ==
    /\ pc = "display"
    /\ pc' = "memory"
    /\ UNCHANGED <<camera, clock, frame_count, fps, last_time, img, pending,
                   captures, processed, last_reclaim, outputs, img_width,
                   img_height, candidates, detections>>
    /\ UNCHANGED harness
    /\ UNCHANGED probe
    /\ UNCHANGED cleanup

\* Variant: a counter of 0 does not count as a multiple of 10.
ReclaimDueAfterTen(count) == count > 0 /\ count % ReclaimModulus = 0

\* The condition under which run() calls gc.collect() inside the loop.
ReclaimDue(count) == count % ReclaimModulus = 0

\* if self.frame_count % 10 == 0: gc.collect()
MemoryManagement ==
    /\ pc = "memory"
    /\ last_reclaim' = IF ReclaimDue(frame_count) THEN processed ELSE last_reclaim
    /\ pc' = "capture"
    /\ UNCHANGED <<camera, clock, frame_count, fps, last_time, img, pending,
                   captures, processed, outputs, img_width, img_height,
                   candidates, detections>>
    /\ UNCHANGED harness
    /\ UNCHANGED probe
    /\ UNCHANGED cleanup

\* Ctrl+C while run() is inside the try block.
KeyboardInterrupt ==
    /\ pc \in TryPcs
    /\ pc' = "except"
    /\ pending' = "KeyboardInterrupt"
    /\ UNCHANGED <<camera, clock, frame_count, fps, last_time, img, captures,
                   processed, last_reclaim, outputs, img_width, img_height,
                   candidates, detections>>
    /\ UNCHANGED harness
    /\ UNCHANGED probe
    /\ UNCHANGED cleanup

\* Variant: the except clause releases the camera as well, ahead of the
\* finally clause.
ExceptClauseReleasing ==
    /\ pc = "except"
    /\ pending' = "none"
    /\ pc' = "finally"
    /\ camera' = "released"
    /\ deinit_calls' = deinit_calls + 1
    /\ UNCHANGED <<clock, frame_count, fps, last_time, img, captures,
                   processed, last_reclaim, outputs, img_width, img_height,
                   candidates, detections, final_reclaims>>
    /\ UNCHANGED harness
    /\ UNCHANGED probe

\* except KeyboardInterrupt: print(...)
ExceptClause ==
    /\ pc = "except"
    /\ pending' = "none"
    /\ pc' = "finally"
    /\ UNCHANGED <<camera, clock, frame_count, fps, last_time, img, captures,
                   processed, last_reclaim, outputs, img_width, img_height,
                   candidates, detections>>
    /\ UNCHANGED harness
    /\ UNCHANGED probe
    /\ UNCHANGED cleanup

\* Variant: the cleanup stands in the except clause, not in a finally clause,
\* so it runs for KeyboardInterrupt only.
CleanupOnInterruptOnly ==
    /\ pc = "finally"
    /\ IF pending = "none"
       THEN /\ camera' = "released"
            /\ deinit_calls' = deinit_calls + 1
            /\ final_reclaims' = final_reclaims + 1
            /\ pc' = "returned"
       ELSE /\ pc' = "raised"
            /\ UNCHANGED <<camera, deinit_calls, final_reclaims>>
    /\ UNCHANGED <<clock, frame_count, fps, last_time, img, pending, captures,
                   processed, last_reclaim, outputs, img_width, img_height,
                   candidates, detections>>
    /\ UNCHANGED harness
    /\ UNCHANGED probe

\* finally: camera.camera_deinit(); gc.collect(); then run() returns, or the
\* pending exception leaves run() and main().
FinallyClause ==
    /\ pc = "finally"
    /\ camera' = "released"
    /\ deinit_calls' = deinit_calls + 1
    /\ final_reclaims' = final_reclaims + 1
    /\ pc' = IF pending = "none" THEN "returned" ELSE "raised"
    /\ UNCHANGED <<clock, frame_count, fps, last_time, img, pending, captures,
                   processed, last_reclaim, outputs, img_width, img_height,
                   candidates, detections>>
    /\ UNCHANGED harness
    /\ UNCHANGED probe

Next ==
    \/ LoadModel
    \/ CameraInit
    \/ Capture
    \/ Preprocess
    \/ Infer
    \/ Postprocess
    \/ DrawDetections
    \/ UpdateFps
    \/ Display
    \/ MemoryManagement
    \/ KeyboardInterrupt
    \/ ExceptClause
    \/ FinallyClause

Spec == Init /\ [][Next]_vars

\* The statements the interpreter executes on its own: every step of main()
\* except the arrival of Ctrl+C.
Statement ==
    \/ LoadModel
    \/ CameraInit
    \/ Capture
    \/ Preprocess
    \/ Infer
    \/ Postprocess
    \/ DrawDetections
    \/ UpdateFps
    \/ Display
    \/ MemoryManagement
    \/ ExceptClause
    \/ FinallyClause

\* Most calls of camera.capture() in a run of the program under SpecLive.
MaxLiveCaptures == 4

LongestDelay == CHOOSE d \in CaptureDelays : \A e \in CaptureDelays : d >= e

\* What kpu.run() returns in a run under SpecLive: a batch with no
\* predictions, or one object.
LiveOutputs == {<<>>, <<<<>>>>, <<<< <<2, 2, 2, 2, 3, 1>> >>>>}

\* A run in which every capture takes the longest time and kpu.run()
\* returns one of two tensors.
LiveEnvironment ==
    /\ captures' <= MaxLiveCaptures
    /\ clock' # clock => clock' = (clock + LongestDelay) % TicksPeriod
    /\ outputs' \in LiveOutputs

NextLive ==
    \/ LoadModel /\ LiveEnvironment
    \/ CameraInit /\ LiveEnvironment
    \/ Capture /\ LiveEnvironment
    \/ Preprocess /\ LiveEnvironment
    \/ Infer /\ LiveEnvironment
    \/ Postprocess /\ LiveEnvironment
    \/ DrawDetections /\ LiveEnvironment
    \/ UpdateFps /\ LiveEnvironment
    \/ Display /\ LiveEnvironment
    \/ MemoryManagement /\ LiveEnvironment
    \/ KeyboardInterrupt /\ LiveEnvironment
    \/ ExceptClause /\ LiveEnvironment
    \/ FinallyClause /\ LiveEnvironment

\* The program in that environment, with the guarantee that the interpreter
\* goes on to the next statement and that the calls it makes return or
\* raise.
SpecLive == Init /\ [][NextLive]_vars /\ WF_vars(Statement /\ LiveEnvironment)

-----------------------------------------------------------------------------
(* iou() called on its own, and nms() on the same two boxes.               *)

\* Corner coordinates of the boxes handed to iou() run over 0..MaxCoord.
MaxCoord == 2

\* Widths and heights of the boxes handed to iou() run over -1..MaxSide.
MaxSide == 2

\* Boxes (x, y, w, h), in pixels: zero-area ones, negative extents (which
\* postprocess() can emit) and ordinary ones.
IouBoxes ==
    {<<x, y, w, h>> : x \in 0..MaxCoord, y \in 0..MaxCoord,
                      w \in (-1)..MaxSide, h \in (-1)..MaxSide}

\* The detection of class 0 and confidence 0.5 with box b.
AsDetection(b) == b \o <<2, 0>>

InitIou ==
    /\ stage = "iou_args"
    /\ arg_boxes \in {<<a, b>> : a \in IouBoxes, b \in IouBoxes}
    /\ iou_threshold \in IouThresholds
    /\ iou_returned = <<>>
    /\ arg_detections = <<>>
    /\ keep = <<>>
    /\ keep_again = <<>>
    /\ outputs = <<>>
    /\ conf_thresh = CONFIDENCE_THRESHOLD
    /\ img_width = IMG_WIDTH
    /\ img_height = IMG_HEIGHT
    /\ candidates = <<>>
    /\ detections = <<>>
    /\ elapsed = 0
    /\ window_ticks = 0
    /\ prior_ticks = 0
    /\ close_elapsed = 0
    /\ LoopIdle

\* self.iou(a, b) and self.iou(b, a)
CallIou ==
    /\ stage = "iou_args"
    /\ iou_returned' = <<iou(arg_boxes[1], arg_boxes[2]),
                         iou(arg_boxes[2], arg_boxes[1])>>
    /\ stage' = "iou_returned"
    /\ UNCHANGED <<arg_boxes, elapsed, window_ticks, prior_ticks, close_elapsed>>
    /\ UNCHANGED <<arg_detections, iou_threshold, keep, keep_again, outputs,
                   conf_thresh, img_width, img_height, candidates, detections>>
    /\ UNCHANGED loop

\* self.nms([a, b], iou_threshold) with a and b as detections of one class
CallNmsOnPair ==
    /\ stage = "iou_returned"
    /\ arg_detections' = <<AsDetection(arg_boxes[1]), AsDetection(arg_boxes[2])>>
    /\ keep' = nms(arg_detections', iou_threshold)
    /\ stage' = "pair_nms_returned"
    /\ UNCHANGED probe
    /\ UNCHANGED <<iou_threshold, keep_again, outputs, conf_thresh, img_width,
                   img_height, candidates, detections>>
    /\ UNCHANGED loop

NextIou == CallIou \/ CallNmsOnPair

SpecIou == InitIou /\ [][NextIou]_vars

-----------------------------------------------------------------------------
(* update_fps() called on its own, at times the caller chooses.            *)

\* Most calls of update_fps() in one run.
MaxTicks == 32

\* Milliseconds between two calls of update_fps(): 30 calls 33 ms apart and
\* one 11 ms later end at 1001 ms, 23 calls 32 ms apart and 8 calls 33 ms
\* apart end at 1000 ms.
TickDelays == {11, 32, 33}

\* time.ticks_ms() at the reset the run starts from: far from the wrap of the
\* counter, and 500 ms before it.
FpsStartTicks == {0, TicksPeriod - 500}

\* The fields as __init__ leaves them (lines 68-70), nothing else running.
InitFps ==
    /\ stage = "fps_reset"
    /\ clock \in FpsStartTicks
    /\ last_time = clock
    /\ frame_count = 0
    /\ fps = 0
    /\ processed = 0
    /\ elapsed = 0
    /\ window_ticks = 0
    /\ prior_ticks = 0
    /\ close_elapsed = 0
    /\ arg_boxes = <<>>
    /\ iou_returned = <<>>
    /\ pc = "idle"
    /\ camera = "closed"
    /\ img = "none"
    /\ pending = "none"
    /\ captures = 0
    /\ last_reclaim = 0
    /\ deinit_calls = 0
    /\ final_reclaims = 0
    /\ arg_detections = <<>>
    /\ iou_threshold = IOU_THRESHOLD
    /\ keep = <<>>
    /\ keep_again = <<>>
    /\ conf_thresh = CONFIDENCE_THRESHOLD
    /\ outputs = <<>>
    /\ img_width = IMG_WIDTH
    /\ img_height = IMG_HEIGHT
    /\ candidates = <<>>
    /\ detections = <<>>

\* d milliseconds pass and update_fps() is called.  The history records the
\* true time since the reset and the calls made in it, and, when 1000 ms or
\* more have truly passed, how many calls came before this one and how long
\* the window lasted.
Tick ==
    /\ stage \in {"fps_reset", "fps_open", "fps_closed"}
    /\ processed < MaxTicks
    /\ \E d \in TickDelays :
           LET current_time == (clock + d) % TicksPeriod
               after == update_fps(frame_count, fps, last_time, current_time)
           IN /\ clock' = current_time
              /\ frame_count' = after[1]
              /\ fps' = after[2]
              /\ last_time' = after[3]
              /\ IF elapsed + d >= FpsWindowMs
                 THEN /\ stage' = "fps_closed"
                      /\ prior_ticks' = window_ticks
                      /\ close_elapsed' = elapsed + d
                      /\ elapsed' = 0
                      /\ window_ticks' = 0
                 ELSE /\ stage' = "fps_open"
                      /\ elapsed' = elapsed + d
                      /\ window_ticks' = window_ticks + 1
                      /\ UNCHANGED <<prior_ticks, close_elapsed>>
    /\ processed' = processed + 1
    /\ UNCHANGED <<arg_boxes, iou_returned>>
    /\ UNCHANGED <<pc, camera, img, pending, captures, last_reclaim>>
    /\ UNCHANGED cleanup
    /\ UNCHANGED <<arg_detections, iou_threshold, keep, keep_again, conf_thresh,
                   outputs, img_width, img_height, candidates, detections>>

NextFps == Tick

SpecFps == InitFps /\ [][NextFps]_vars

-----------------------------------------------------------------------------
(* Properties of nms(), checked under SpecNms.                             *)

NmsReturned == stage \in {"nms_returned", "nms_returned_again"}

\* The sub-list of the detections of class c.
OfClass(dets, c) == SelectSeq(dets, LAMBDA d : d[6] = c)

\* IoU(a, b) >= threshold
Overlap(a, b, threshold) == ~FracLess(iou(a, b), threshold)

\* C1: the list nms() returns holds no two detections, at different
\* positions, of the same class_id whose IoU is at least the threshold.
C1_NoOverlappingSurvivors ==
    NmsReturned =>
        \A i \in Indices(keep) : \A j \in Indices(keep) :
            (i # j /\ keep[i][6] = keep[j][6])
                => ~Overlap(keep[i], keep[j], iou_threshold)

\* Three detections of one class went in, one was suppressed by a survivor
\* and two survived.
C1_Witness ==
    /\ stage = "nms_returned"
    /\ Len(arg_detections) = 3
    /\ \A i \in Indices(arg_detections) : arg_detections[i][6] = 0
    /\ Len(keep) = 2
    /\ iou_threshold[1] > 0
    /\ \E d \in Range(arg_detections) :
           d \notin Range(keep) /\ Overlap(keep[1], d, iou_threshold)

\* C2: the survivors of class c are the result of nms() on the class-c
\* detections alone, for every class c; and of two detections of different
\* classes handed in as a pair, whatever their IoU, both are returned.
C2_ClassesIndependent ==
    NmsReturned =>
        /\ \A c \in 0..(NumClasses - 1) :
               OfClass(keep, c) = nms(OfClass(arg_detections, c), iou_threshold)
        /\ (Len(arg_detections) = 2 /\ arg_detections[1][6] # arg_detections[2][6])
               => Len(keep) = 2

\* Two detections with the same box (IoU = 1) and different classes were
\* handed in with a threshold that suppresses within a class, and both
\* came back.
C2_Witness ==
    /\ stage = "nms_returned"
    /\ Len(arg_detections) = 2
    /\ arg_detections[1][6] # arg_detections[2][6]
    /\ iou(arg_detections[1], arg_detections[2]) = <<2, 2>>
    /\ iou_threshold = <<1, 2>>
    /\ Len(keep) = 2

\* C3: nms() applied to its own result, with the same threshold, returns
\* that result unchanged.
C3_NmsIdempotent ==
    stage = "nms_returned_again" => keep_again = keep

\* The first application removed a detection and left at least two.
C3_Witness ==
    /\ stage = "nms_returned_again"
    /\ Len(arg_detections) = 3
    /\ Len(keep) = 2
    /\ keep[1][6] = keep[2][6]
    /\ Len(keep_again) = 2

\* The positions of dets that hold the highest confidence among the
\* positions in remaining.
Strongest(dets, remaining) ==
    {i \in remaining : \A j \in remaining : dets[i][5] >= dets[j][5]}

\* The least number of a non-empty set of numbers.
Least(S) == CHOOSE i \in S : \A j \in S : i <= j

\* The greedy selection over positions of the input: take the earliest of
\* the strongest remaining positions, discard the remaining positions of
\* its class that overlap it, and go on.
RECURSIVE GreedySelection(_, _, _)
GreedySelection(dets, remaining, threshold) ==
    IF remaining = {} THEN <<>>
    ELSE LET b == Least(Strongest(dets, remaining))
             rest == {j \in remaining \ {b} :
                         dets[j][6] # dets[b][6]
                             \/ ~Overlap(dets[b], dets[j], threshold)}
         IN <<dets[b]>> \o GreedySelection(dets, rest, threshold)

\* C24: the list nms() returns is the greedy selection in which each pick is
\* the remaining detection of highest confidence, the earliest in the input
\* among equals; and of two detections of one class with IoU at least the
\* threshold only the one of higher confidence is returned, the first one
\* when the confidences are equal.
C24_GreedyStableOrder ==
    NmsReturned =>
        /\ keep = GreedySelection(arg_detections, Indices(arg_detections),
                                  iou_threshold)
        /\ (/\ Len(arg_detections) = 2
            /\ arg_detections[1][6] = arg_detections[2][6]
            /\ Overlap(arg_detections[1], arg_detections[2], iou_threshold)) =>
               keep = IF arg_detections[2][5] > arg_detections[1][5]
                      THEN <<arg_detections[2]>>
                      ELSE <<arg_detections[1]>>

\* Two different overlapping boxes of one class and one confidence: the
\* first of the input is the one returned.
C24_Witness ==
    /\ stage = "nms_returned"
    /\ Len(arg_detections) = 2
    /\ arg_detections[1] # arg_detections[2]
    /\ arg_detections[1][5] = arg_detections[2][5]
    /\ arg_detections[1][6] = arg_detections[2][6]
    /\ iou_threshold[1] > 0
    /\ Overlap(arg_detections[1], arg_detections[2], iou_threshold)
    /\ keep = <<arg_detections[1]>>

\* How many times d occurs in dets.
Occurrences(dets, d) == Cardinality({i \in Indices(dets) : dets[i] = d})

\* C27: a detection that occurs less often in the list nms() returns than
\* in its input has a detection k in the returned list with the same
\* class_id, a confidence at least its own, and IoU(k, d) at least the
\* threshold.
C27_DroppedHasSuppressor ==
    NmsReturned =>
        \A d \in Range(arg_detections) :
            Occurrences(keep, d) < Occurrences(arg_detections, d) =>
                \E k \in Range(keep) :
                    /\ k[6] = d[6]
                    /\ k[5] >= d[5]
                    /\ Overlap(k, d, iou_threshold)

\* A detection was dropped whose only suppressor has a strictly higher
\* confidence, while a third one of the same class survived beside it.
C27_Witness ==
    /\ stage = "nms_returned"
    /\ Len(arg_detections) = 3
    /\ Len(keep) = 2
    /\ iou_threshold[1] > 0
    /\ \E d \in Range(arg_detections) :
           /\ d \notin Range(keep)
           /\ \E k \in Range(keep) :
                  k[6] = d[6] /\ k[5] > d[5] /\ Overlap(k, d, iou_threshold)
           /\ \E k \in Range(keep) :
                  k[6] = d[6] /\ ~Overlap(k, d, iou_threshold)

\* C28: every detection occurs in the list nms() returns at most as often
\* as in its input, with its six fields as they were, and the returned list
\* is in non-increasing confidence.
C28_SubCollectionInOrder ==
    NmsReturned =>
        /\ \A d \in Range(keep) :
               Occurrences(keep, d) <= Occurrences(arg_detections, d)
        /\ \A i \in Indices(keep) : \A j \in Indices(keep) :
               i < j => keep[i][5] >= keep[j][5]

\* Three detections went in with the weakest first; two came back, the
\* stronger one first.
C28_Witness ==
    /\ stage = "nms_returned"
    /\ Len(arg_detections) = 3
    /\ arg_detections[1][5] < arg_detections[3][5]
    /\ Len(keep) = 2
    /\ keep[1][5] > keep[2][5]
    /\ keep[2] = arg_detections[1]

\* C25: every pass of the while loop of nms() leaves the working list
\* shorter than it found it and adds one detection to keep; the passes made
\* never outnumber the n detections of the input, and the passes made and
\* the detections still to visit together never exceed n; when the loop
\* ends, keep is the result of nms().
C25_LoopShrinksWorkingList ==
    [][/\ (stage = "nms_loop" /\ stage' = "nms_loop") =>
              /\ Len(detections') < Len(detections)
              /\ Len(keep') = Len(keep) + 1
       /\ stage' \in {"nms_loop", "nms_loop_returned"} =>
              /\ Len(keep') <= Len(arg_detections)
              /\ Len(keep') + Len(detections') <= Len(arg_detections)
       /\ stage' = "nms_loop_returned" =>
              /\ detections' = <<>>
              /\ keep' = nms(arg_detections, iou_threshold)]_vars

\* Three detections of which none suppresses another: the loop returned
\* after three passes.
C25_Witness ==
    /\ stage = "nms_loop_returned"
    /\ Len(arg_detections) = 3
    /\ Len(keep) = 3
    /\ detections = <<>>

-----------------------------------------------------------------------------
(* Properties of postprocess(), checked under SpecDecode.                  *)

PostprocessReturned == stage = "postprocess_returned"

\* The rows of the tensor, outputs[0].
Predictions == IF Len(outputs) = 0 THEN <<>> ELSE outputs[1]

ScoresOf(pred) == SubSeq(pred, 5, Len(pred))

\* A row the loop decodes without raising whose best score reaches t.
Qualifies(pred, t) ==
    /\ Len(pred) >= 5
    /\ \E v \in Range(ScoresOf(pred)) : v >= t

\* The rows that qualify, in the order of the tensor.
QualifyingRows(preds, t) == SelectSeq(preds, LAMBDA r : Qualifies(r, t))

AllWellFormed(preds) == \A i \in Indices(preds) : WellFormedRow(preds[i])

AllAccepted(preds) == \A i \in Indices(preds) : Len(preds[i]) >= 5

\* C4: for a tensor of well-formed rows the candidate list holds one
\* detection for each row whose best score is at least the threshold, none
\* for the other rows, in the order of the rows.
C4_ConfidenceFilter ==
    (PostprocessReturned /\ AllWellFormed(Predictions)) =>
        LET rows == QualifyingRows(Predictions, conf_thresh)
        IN /\ Len(candidates) = Len(rows)
           /\ \A k \in Indices(rows) :
                  candidates[k] = DecodeRow(rows[k], img_width, img_height)

\* A tensor of two well-formed rows, the first below the threshold and the
\* second with its best score equal to it: one candidate.
C4_Witness ==
    /\ PostprocessReturned
    /\ AllWellFormed(Predictions)
    /\ Len(Predictions) = 2
    /\ ~Qualifies(Predictions[1], conf_thresh)
    /\ Qualifies(Predictions[2], conf_thresh)
    /\ ~Qualifies(Predictions[2], conf_thresh + 1)
    /\ Len(candidates) = 1

\* C5: the confidence of a candidate is the greatest score of its row and
\* its class_id is the lowest index at which the row has that score.
C5_ArgmaxFirstIndex ==
    (PostprocessReturned /\ AllAccepted(Predictions)) =>
        LET rows == QualifyingRows(Predictions, conf_thresh)
        IN /\ Len(candidates) = Len(rows)
           /\ \A k \in Indices(rows) :
                  LET scores == ScoresOf(rows[k])
                      conf == candidates[k][5]
                      cls == candidates[k][6]
                  IN /\ cls \in 0..(Len(scores) - 1)
                     /\ scores[cls + 1] = conf
                     /\ \A j \in Indices(scores) : scores[j] <= conf
                     /\ \A j \in 1..cls : scores[j] < conf

\* A retained row whose two classes share the best score; class_id is 0.
C5_Witness ==
    /\ PostprocessReturned
    /\ Len(Predictions) = 1
    /\ AllAccepted(Predictions)
    /\ ScoresOf(Predictions[1]) = <<2, 2>>
    /\ Len(candidates) = 1
    /\ candidates[1][5] = 2
    /\ candidates[1][6] = 0

\* C6: a row of the wrong arity costs only itself: every well-formed row of
\* the tensor, before or after it, whose best score reaches the threshold
\* has its detection in the candidate list.
C6_MalformedRowSkipped ==
    PostprocessReturned =>
        \A i \in Indices(Predictions) :
            (WellFormedRow(Predictions[i]) /\ Qualifies(Predictions[i], conf_thresh))
                => DecodeRow(Predictions[i], img_width, img_height) \in Range(candidates)

\* C7: every detection postprocess() returns has class_id in 0..C-1.
C7_ClassIdInRange ==
    PostprocessReturned =>
        \A i \in Indices(detections) : detections[i][6] \in 0..(NumClasses - 1)

\* The pixel columns (or rows) between the two ends of an extent.
PixelsOf(origin, extent) ==
    Min(origin, origin + extent)..(Max(origin, origin + extent) - 1)

\* C8: every detection has 0 <= x, 0 <= y, x + w <= img_width and
\* y + h <= img_height, and every pixel it covers has its column in
\* 0..img_width-1 and its row in 0..img_height-1.
C8_InsideFrame ==
    PostprocessReturned =>
        \A d \in Range(candidates) \cup Range(detections) :
            LET x == d[1]
                y == d[2]
                w == d[3]
                h == d[4]
            IN /\ 0 <= x
               /\ 0 <= y
               /\ x + w <= img_width
               /\ y + h <= img_height
               /\ PixelsOf(x, w) \subseteq 0..(img_width - 1)
               /\ PixelsOf(y, h) \subseteq 0..(img_height - 1)

\* A box larger than the frame on every side came out as the whole frame.
C8_Witness ==
    /\ PostprocessReturned
    /\ Len(Predictions) = 1
    /\ AllAccepted(Predictions)
    /\ SubSeq(Predictions[1], 1, 4) = <<2, 2, 8, 8>>
    /\ Len(candidates) = 1
    /\ SubSeq(candidates[1], 1, 4) = <<0, 0, img_width, img_height>>

\* C9 as stated: every candidate has w >= 0 and h >= 0, whatever the values
\* of the row.
C9_ExtentsNonNegative ==
    PostprocessReturned =>
        \A i \in Indices(candidates) :
            candidates[i][3] >= 0 /\ candidates[i][4] >= 0

\* C9 amended: a row whose width is not negative gives w >= 0, and a row
\* whose height is not negative gives h >= 0, wherever its centre lies and
\* however large the width and height are.
C9_ExtentsNonNegativeForNonNegativeSizes ==
    (PostprocessReturned /\ AllAccepted(Predictions)) =>
        LET rows == QualifyingRows(Predictions, conf_thresh)
        IN /\ Len(candidates) = Len(rows)
           /\ \A k \in Indices(rows) :
                  /\ rows[k][3] >= 0 => candidates[k][3] >= 0
                  /\ rows[k][4] >= 0 => candidates[k][4] >= 0

\* A box off the right and bottom edges was clamped to zero area, and a box
\* inside the frame kept a positive area.
C9_Witness ==
    /\ PostprocessReturned
    /\ Len(Predictions) = 2
    /\ AllAccepted(Predictions)
    /\ SubSeq(Predictions[1], 1, 4) = <<6, 6, 2, 2>>
    /\ SubSeq(Predictions[2], 1, 4) = <<2, 2, 2, 2>>
    /\ Len(candidates) = 2
    /\ candidates[1][3] = 0 /\ candidates[1][4] = 0
    /\ candidates[2][3] > 0 /\ candidates[2][4] > 0

\* The box of the row lies inside the unit square.
InsideUnit(pred) ==
    /\ pred[3] >= 0
    /\ pred[4] >= 0
    /\ 2 * pred[1] - pred[3] >= 0
    /\ 2 * pred[1] + pred[3] <= 2 * Den
    /\ 2 * pred[2] - pred[4] >= 0
    /\ 2 * pred[2] + pred[4] <= 2 * Den

\* v is the integer part of (twice / (2 * Den)) * size, for twice >= 0.
IsTruncatedProduct(v, twice, size) ==
    /\ v * 2 * Den <= twice * size
    /\ twice * size < (v + 1) * 2 * Den

\* C21: for every retained row whose box lies inside the unit square, x and
\* y are the integer parts of (x_center - width/2) * img_width and
\* (y_center - height/2) * img_height, x + w and y + h are the integer
\* parts of (x_center + width/2) * img_width and (y_center + height/2) *
\* img_height, and a tensor of one such well-formed row yields exactly one
\* detection, with the best score of the row and its class.
C21_PixelBoxIsTheMapping ==
    (PostprocessReturned /\ AllAccepted(Predictions)) =>
        LET rows == QualifyingRows(Predictions, conf_thresh)
        IN /\ Len(candidates) = Len(rows)
           /\ \A k \in Indices(rows) :
                  InsideUnit(rows[k]) =>
                      LET xc == rows[k][1]
                          yc == rows[k][2]
                          wn == rows[k][3]
                          hn == rows[k][4]
                          x == candidates[k][1]
                          y == candidates[k][2]
                          w == candidates[k][3]
                          h == candidates[k][4]
                      IN /\ IsTruncatedProduct(x, 2 * xc - wn, img_width)
                         /\ IsTruncatedProduct(y, 2 * yc - hn, img_height)
                         /\ IsTruncatedProduct(x + w, 2 * xc + wn, img_width)
                         /\ IsTruncatedProduct(y + h, 2 * yc + hn, img_height)
           /\ (Len(rows) = 1 /\ WellFormedRow(rows[1]) /\ InsideUnit(rows[1])) =>
                  /\ detections = candidates
                  /\ \A j \in Indices(ScoresOf(rows[1])) :
                         ScoresOf(rows[1])[j] <= detections[1][5]
                  /\ ScoresOf(rows[1])[detections[1][6] + 1] = detections[1][5]

\* Row [0.5, 0.5, 0.5, 0.5, 0.75, 0.25] at 320x320 with threshold 0.5: one
\* detection, class 0, confidence 0.75, box (80, 80, 160, 160) centred at
\* (160, 160).
C21_Witness ==
    /\ PostprocessReturned
    /\ outputs = <<<< <<2, 2, 2, 2, 3, 1>> >>>>
    /\ img_width = IMG_WIDTH
    /\ img_height = IMG_HEIGHT
    /\ conf_thresh = 2
    /\ detections = << <<80, 80, 160, 160, 3, 0>> >>

-----------------------------------------------------------------------------
(* Properties of run(), checked under Spec.                                *)

\* Statements at which the memory-management step of frame number
\* `processed` is complete.
AfterMemoryPcs ==
    {"capture", "preprocess", "infer", "postprocess", "draw", "update_fps"}

\* C10: the loop calls gc.collect() after the 10th, 20th, 30th ... processed
\* frame and after no other frame.
C10_ReclaimEveryTenthFrame ==
    (pc \in AfterMemoryPcs /\ processed >= 1) =>
        (last_reclaim = processed <=> processed % ReclaimModulus = 0)

\* C11: a capture that returns None sends the loop straight back to
\* capturing; the frame counter, the reported FPS, the reset timestamp and
\* the count of processed frames are unchanged, and nothing is reclaimed,
\* released or raised by that step.
C11_NullCaptureRetries ==
    [][(captures' = captures + 1 /\ img' = "none") =>
           /\ pc' = "capture"
           /\ UNCHANGED <<frame_count, fps, last_time, processed, last_reclaim,
                          camera, pending, deinit_calls, final_reclaims>>]_vars

\* A capture returned None after at least one frame had been counted.
C11_Witness ==
    /\ pc = "capture"
    /\ img = "none"
    /\ captures >= 2
    /\ processed >= 1
    /\ frame_count >= 1

\* C12: when run() has ended, by return or by an exception, the camera has
\* been released and gc.collect() has been called once in the finally
\* clause.
C12_CleanupOnEveryExit ==
    (pc \in {"returned", "raised"} /\ camera # "closed") =>
        /\ camera = "released"
        /\ deinit_calls = 1
        /\ final_reclaims = 1

\* run() ended by an exception after processing a frame, with the cleanup
\* done.
C12_Witness ==
    /\ pc = "raised"
    /\ pending = "Exception"
    /\ processed >= 1
    /\ camera = "released"
    /\ final_reclaims = 1

\* C13: when kpu.run() raises, the next statement is the finally clause
\* with the exception pending; nothing is decoded, drawn, counted or
\* captured from then on, the finally clause releases the camera, and the
\* exception leaves run(), after which nothing more happens.
C13_InferenceFailureIsFatal ==
    [][/\ (pc = "infer" /\ pc' # "postprocess" /\ pc' # "except") =>
              /\ pc' = "finally"
              /\ pending' = "Exception"
              /\ UNCHANGED <<captures, processed, frame_count, fps, last_time,
                             candidates, detections, camera>>
       /\ (pc = "finally" /\ pending = "Exception") =>
              /\ pc' = "raised"
              /\ pending' = "Exception"
              /\ camera' = "released"
              /\ UNCHANGED <<captures, processed, frame_count, fps, last_time,
                             candidates, detections>>
       /\ pc = "raised" => UNCHANGED vars]_vars

\* kpu.run() raised on a later frame and the exception left run().
C13_Witness ==
    /\ pc = "raised"
    /\ pending = "Exception"
    /\ img = "frame"
    /\ outputs = <<>>
    /\ processed >= 1
    /\ camera = "released"

\* C14: when nn.load() or camera.camera_init() raises, the exception leaves
\* the constructor and main(); while the camera has never been opened no
\* frame is captured, inferred on or displayed, and nothing happens after
\* the exception has left main().
C14_InitFailureStopsBeforeLoop ==
    [][/\ (pc = "load_model" /\ pc' # "camera_init") =>
              (pc' = "raised" /\ pending' = "Exception")
       /\ (pc = "camera_init" /\ camera' # "open") =>
              (pc' = "raised" /\ pending' = "Exception")
       /\ camera' = "closed" =>
              (captures' = 0 /\ processed' = 0 /\ outputs' = <<>> /\ pc' \notin TryPcs)
       /\ pc = "raised" => UNCHANGED vars]_vars

\* The constructor failed: main() ended with the exception and no capture.
C14_Witness ==
    /\ pc = "raised"
    /\ pending = "Exception"
    /\ camera = "closed"
    /\ captures = 0

\* C15: a call of update_fps() that finds at least 1000 ms elapsed since
\* the last reset reports the incremented counter as FPS, resets the counter
\* to 0 and sets the reset timestamp to the current time; any other call
\* increments the counter by one and leaves the reported FPS and the reset
\* timestamp unchanged.
C15_UpdateFpsContract ==
    [][(pc = "update_fps" /\ pc' = "display") =>
           IF clock - last_time >= FpsWindowMs
           THEN /\ fps' = frame_count + 1
                /\ frame_count' = 0
                /\ last_time' = clock
           ELSE /\ frame_count' = frame_count + 1
                /\ UNCHANGED <<fps, last_time>>]_vars

\* update_fps() was called exactly 1000 ms after the last reset, as the
\* second call of the window, and reported 2.
C15_Witness ==
    /\ pc = "display"
    /\ clock = FpsWindowMs
    /\ last_time = clock
    /\ frame_count = 0
    /\ fps = 2
    /\ processed = 2

\* The raw tensor holds no prediction: it is empty, or its batch is.
ZeroLength(outs) == Len(outs) = 0 \/ Len(outs[1]) = 0

\* The statements of an iteration after kpu.run() has returned.
AfterInferPcs == {"postprocess", "draw", "update_fps", "display", "memory"}

\* C20: with a raw tensor of length zero, postprocess() returns the empty
\* list and raises nothing; draw_detections() then raises nothing,
\* update_fps() counts the frame, the frame is displayed, and the loop is
\* back at camera.capture() with the camera open, unless Ctrl+C intervenes.
C20_EmptyTensorFrameCompletes ==
    [][(pc \in AfterInferPcs /\ ZeroLength(outputs) /\ pc' # "except") =>
           /\ pending' = "none"
           /\ camera' = "open"
           /\ pc = "postprocess" =>
                  (pc' = "draw" /\ candidates' = <<>> /\ detections' = <<>>)
           /\ pc = "draw" => (pc' = "update_fps" /\ detections = <<>>)
           /\ pc = "update_fps" =>
                  (pc' = "display" /\ processed' = processed + 1)
           /\ pc = "display" => pc' = "memory"
           /\ pc = "memory" => pc' = "capture"]_vars

\* A frame whose tensor had an empty batch was counted and displayed, and
\* the loop is about to capture the next frame.
C20_Witness ==
    /\ pc = "capture"
    /\ outputs = <<<<>>>>
    /\ detections = <<>>
    /\ processed >= 2
    /\ camera = "open"
    /\ pending = "none"

-----------------------------------------------------------------------------
(* Properties of update_fps(), checked under SpecFps.                      *)

FpsTicked == stage \in {"fps_open", "fps_closed"}

\* C16: after n calls of update_fps() inside the first 1000 ms after a
\* reset and one more call 1001 ms after the reset, the reported FPS is n
\* and the counter is 0.
C16_ClosingTickReportsPriorTicks ==
    (stage = "fps_closed" /\ close_elapsed = FpsWindowMs + 1) =>
        (fps = prior_ticks /\ frame_count = 0)

\* C16, amended: after n calls of update_fps() inside the first 1000 ms
\* after a reset and one more call 1001 ms after the reset, the reported FPS
\* is n + 1, the closing call included, and the counter is 0.
C16_ClosingTickIsCounted ==
    (stage = "fps_closed" /\ close_elapsed = FpsWindowMs + 1) =>
        (fps = prior_ticks + 1 /\ frame_count = 0)

\* 30 calls 33 ms apart, the 31st call 1001 ms after the reset: 31 is
\* reported.
C16_Witness ==
    /\ stage = "fps_closed"
    /\ close_elapsed = FpsWindowMs + 1
    /\ prior_ticks = 30
    /\ processed = 31
    /\ fps = 31
    /\ frame_count = 0

\* C17: whether or not the millisecond counter wrapped since the last
\* reset, the reset timestamp is the true time since the reset behind the
\* clock, modulo the period, and the counter holds the calls made since
\* 1000 ms or more had last truly passed: the window closes at the calls
\* where it would close on a counter that never wraps.
C17_RolloverAcrossWraparound ==
    FpsTicked =>
        /\ (last_time + elapsed) % TicksPeriod = clock
        /\ frame_count = window_ticks
        /\ (stage = "fps_closed" => last_time = clock)

\* The counter wrapped inside a window and the window then closed, 1000 ms
\* or more after a reset made before the wrap.
C17_Witness ==
    /\ stage = "fps_closed"
    /\ clock < FpsWindowMs
    /\ close_elapsed > clock
    /\ last_time = clock
    /\ frame_count = 0
    /\ fps = prior_ticks + 1

\* The statement that follows each statement of the loop body when it
\* completes normally.
NextPhase ==
    [capture |-> "preprocess", preprocess |-> "infer", infer |-> "postprocess",
     postprocess |-> "draw", draw |-> "update_fps", update_fps |-> "display",
     display |-> "memory", memory |-> "capture"]

\* The statements of an iteration that work on its frame.
FramePcs == TryPcs \ {"capture"}

\* C22: inside the loop every step goes from one phase to the next one in
\* the order capture, preprocess, infer, postprocess (decode and suppress),
\* draw, update_fps, display, memory, back to capture, or leaves the loop
\* through the except or finally clause, or repeats capture after a None
\* frame; every phase after capture works on a frame captured in this
\* iteration; and from draw to the end of the iteration the detections are
\* the suppressed decoding of the tensor inferred in this iteration.
C22_PhasesInOrder ==
    [][/\ pc \in TryPcs =>
              \/ pc' = NextPhase[pc]
              \/ pc' \in {"except", "finally"}
              \/ pc = "capture" /\ pc' = "capture" /\ img' = "none"
       /\ pc' \in FramePcs => img' = "frame"
       /\ pc' \in {"draw", "update_fps", "display", "memory"} =>
              /\ candidates' = Candidates(outputs', CONFIDENCE_THRESHOLD,
                                          img_width', img_height')
              /\ detections' = nms(candidates', IOU_THRESHOLD)]_vars

\* A second iteration went through every phase, reclamation included, and
\* the loop is back at capture.
C22_Witness ==
    /\ pc = "capture"
    /\ img = "frame"
    /\ processed >= 2
    /\ last_reclaim = processed
    /\ Len(detections) >= 1

\* C26: the frames processed since the last gc.collect() of the loop, or
\* since the loop started, never number more than 10; and an iteration
\* whose update_fps() reset the counter to 0 calls gc.collect().
C26_ReclaimWithinTenFrames ==
    [][/\ processed' - last_reclaim' <= ReclaimModulus
       /\ (pc = "memory" /\ pc' = "capture") =>
              /\ processed' - last_reclaim' < ReclaimModulus
              /\ frame_count = 0 => last_reclaim' = processed]_vars

\* Ten frames were processed without a reset of the counter, the first nine
\* iterations did not reclaim and the tenth did.
C26_Witness ==
    /\ pc = "capture"
    /\ processed = ReclaimModulus
    /\ frame_count = ReclaimModulus
    /\ last_reclaim = processed

\* C23: the loop is stopped only between iterations: the except clause is
\* entered from the top of the loop only, never from a statement that works
\* on a captured frame.
C23_CancellationBetweenIterations ==
    [][pc' = "except" => pc \notin FramePcs]_vars

\* C29: camera_deinit() is called at most once; the call is made in the
\* finally clause of run(), with the camera opened by camera_init(); and
\* once it has been called no statement of the loop runs again, so that
\* camera.capture() and camera.display() are not called any more.
C29_CameraLifecycle ==
    [][/\ deinit_calls' <= 1
       /\ deinit_calls' # deinit_calls =>
              /\ deinit_calls' = deinit_calls + 1
              /\ pc = "finally"
              /\ camera = "open"
              /\ camera' = "released"
       /\ deinit_calls >= 1 =>
              /\ pc \notin TryPcs
              /\ pc' \notin TryPcs
              /\ captures' = captures
              /\ processed' = processed
       /\ camera' = "closed" => deinit_calls' = 0]_vars

\* Frames were captured and displayed, Ctrl+C stopped the loop, and the
\* camera was released once.
C29_Witness ==
    /\ pc = "returned"
    /\ camera = "released"
    /\ deinit_calls = 1
    /\ captures >= 2
    /\ processed >= 2

\* The loop has been left, or an exception is on its way out.
Stopped ==
    \/ pending # "none"
    \/ pc \in {"except", "finally", "returned", "raised"}

-----------------------------------------------------------------------------
(* Properties of iou(), checked under SpecIou.                             *)

IouReturned == stage \in {"iou_returned", "pair_nms_returned"}

ZeroArea(b) == b[3] * b[4] = 0

\* C18: iou(A, B) and iou(B, A) are the same number, for every pair of
\* boxes.
C18_IouSymmetric ==
    IouReturned => iou_returned[1] = iou_returned[2]

\* Two different boxes that overlap in part: the IoU is strictly between 0
\* and 1 in both orders.
C18_Witness ==
    /\ stage = "iou_returned"
    /\ arg_boxes[1] # arg_boxes[2]
    /\ arg_boxes[1][3] # arg_boxes[2][3]
    /\ FracLess(<<0, 1>>, iou_returned[1])
    /\ FracLess(iou_returned[1], <<1, 1>>)
    /\ iou_returned[2] = iou_returned[1]

\* C19: iou() returns a number for every pair of boxes (no division by
\* zero); for two boxes of zero area, wherever they are, it returns 0; and
\* nms() with a threshold above 0 returns both of two zero-area boxes of one
\* class.
C19_ZeroUnionGivesZero ==
    IouReturned =>
        /\ iou_returned[1][2] > 0
        /\ iou_returned[2][2] > 0
        /\ (ZeroArea(arg_boxes[1]) /\ ZeroArea(arg_boxes[2])) =>
               /\ iou_returned[1][1] = 0
               /\ iou_returned[2][1] = 0
               /\ (stage = "pair_nms_returned" /\ iou_threshold[1] > 0) =>
                      /\ Len(keep) = 2
                      /\ Range(keep) = Range(arg_detections)

\* Two zero-area boxes at the same corner and two at different corners are
\* covered; here they differ, nms() ran with a threshold above 0 and both
\* came back.
C19_Witness ==
    /\ stage = "pair_nms_returned"
    /\ ZeroArea(arg_boxes[1])
    /\ ZeroArea(arg_boxes[2])
    /\ arg_boxes[1] # arg_boxes[2]
    /\ iou_threshold[1] > 0
    /\ iou_returned[1] = <<0, 1>>
    /\ Len(keep) = 2

=============================================================================
